---- MODULE Spec2Model ----
(***************************************************************************)
(* pipe2moq: a capture thread (GStreamer pipeline, src/src/lib.rs           *)
(* run_gstreamer_pipeline) feeds encoded frames through a bounded           *)
(* tokio mpsc channel to an async publisher task (run_moq_publisher),       *)
(* both raced by Pipe2Moq::run, which main awaits before the runtime is     *)
(* shut down.                                                               *)
(***************************************************************************)
EXTENDS Naturals, Sequences, FiniteSets, TLC

(* ------------------------------ bounds --------------------------------- *)
\* Capacity of the frame channel.  lib.rs:93 creates it with 100; the
\* channel's behaviour is the same for every capacity, and the model is
\* checked with a small one so that the full channel is reached.
Capacity == 2
\* Encoded units the pipeline hands to the new_sample callback in one run.
MaxFrames == 4
\* Warning / other (non-fatal) messages the pipeline posts in one run.
MaxNotes == 1

VARIABLES
    args,             \* main: the parsed command line (Args), until it is consumed
    file,             \* main: the extracted ConfigFile (file + environment), until consumed
    effective,        \* main: None, or Some of the merged settings handed to Pipe2Moq::new
    mpc,              \* position of main: "args" or "run"
    sink_name,        \* PipelineConfig.sink_name: NoSink or a sink name
    source_device,    \* the resolved capture device (lib.rs:131-139)
    cpc,              \* position of run_gstreamer_pipeline
    cres,             \* its outcome: "none", "ok", "err"
    cerr,             \* which step of the capture driver failed
    pstate,           \* GStreamer pipeline state: "Null" or "Playing"
    stream,           \* the streaming thread / new_sample callback
    produced,         \* units handed to the callback so far
    notes,            \* non-fatal messages posted so far
    warned,           \* history: the bus loop has taken a warning
    bus,              \* the pipeline's message bus (FIFO)
    sender_alive,     \* frame_sender not yet dropped
    channel,          \* frames buffered in the mpsc channel
    sent,             \* history: frames blocking_send accepted, in order
    send_failed,      \* history: a blocking_send has returned Err
    dropped_at,       \* history: frames drained when the sender was dropped (0 before)
    receiver_alive,   \* frame_receiver not yet dropped
    relay,            \* the session held in _session: "down", "up", "stalled", "failed"
    ppc,              \* position of run_moq_publisher
    pres,             \* its outcome: "none", "ok", "err", "panic", "cancelled"
    perr,             \* which step of the publisher failed
    data,             \* the payload the drain loop holds
    frame_count,      \* run_moq_publisher's frame_count
    drained,          \* history: frames recv() has yielded, in order
    groups,           \* groups appended to the track, in order
    first,            \* history: the driver that terminated first
    rpc,              \* position of Pipe2Moq::run
    rres              \* its result: "none", "ok", "err"

vars == <<args, file, effective, mpc, sink_name, source_device, cpc, cres, cerr, pstate, stream, produced, notes, warned,
          bus, sender_alive, channel, sent, send_failed, dropped_at, receiver_alive,
          relay, ppc, pres, perr, data, frame_count, drained, groups, first, rpc, rres>>

mainVars == <<args, file, effective, mpc>>
cfgVars == <<sink_name, source_device, mainVars>>
capVars == <<cpc, cres, cerr, sender_alive, dropped_at>>
busVars == <<bus, notes, warned>>
strVars == <<stream, produced, send_failed>>
chVars  == <<channel, sent>>
pubVars == <<ppc, pres, perr, receiver_alive, relay>>
grpVars == <<data, frame_count, drained, groups>>
runVars == <<rpc, rres>>

NoSink == "NoSink"

\* A value that has been moved out of and is not read again.
Dead == "dead"
NoData == 0

\* The k-th encoded unit as the callback sends it: (bytes, timestamp_us).
Frame(k) == [bytes |-> k, timestamp_us |-> k]

\* The payloads of a sequence of frames.
Payloads(fs) == [k \in 1..Len(fs) |-> fs[k].bytes]

\* The payloads written to the track, group by group.
RECURSIVE Flatten(_)
Flatten(gs) ==
    IF gs = <<>> THEN <<>> ELSE Head(gs).frames \o Flatten(Tail(gs))

Written == Flatten(groups)

IsPrefix(s, t) == Len(s) <= Len(t) /\ SubSeq(t, 1, Len(s)) = s

Range(s) == {s[i] : i \in 1..Len(s)}

(* --------------------------- frame channel ----------------------------- *)
\* mpsc::channel::<(Bytes, u64)>(100): a bounded FIFO.  blocking_send
\* returns Ok once a slot is free and the receiver exists, Err once the
\* receiver has been dropped, and blocks otherwise.
SendReadyOffByOne == receiver_alive /\ Len(channel) <= Capacity

SendReady == receiver_alive /\ Len(channel) < Capacity

SendClosedNever == FALSE

SendClosed == ~receiver_alive

SendBlocked == ~SendReady /\ ~SendClosed

Enqueue(q, f) == Append(q, f)

\* recv() yields the oldest buffered frame; None only when the channel is
\* empty and the sender has been dropped.
RecvNewest(q) == q[Len(q)]

RecvFrame(q) == Head(q)

RecvRest(q) == Tail(q)

RecvClosedEarly == ~sender_alive

RecvClosed == channel = <<>> /\ ~sender_alive

(* ------------------------ main: configuration -------------------------- *)
\* Option<T>: None, Some(x), Option::or, Option::unwrap_or.
None == <<>>
Some(x) == <<x>>
Or(a, b) == IF a # None THEN a ELSE b
UnwrapOr(a, d) == IF a # None THEN a[1] ELSE d

\* The relay settings of the file are plain strings with an empty default;
\* an empty one counts as not given (main.rs:132-142).
NonEmpty(s) == IF s = "" THEN None ELSE Some(s)

\* The values main falls back on (main.rs:134, 147-150).
Defaults ==
    [relay_url |-> "https://localhost:4443/anon", bitrate |-> 96000,
     application |-> "voip", frame_size |-> 20]

\* Command lines and configuration files: one string setting of the relay
\* (relay_url), one numeric setting of the encoder that is merged like the
\* other numeric ones (bitrate), frame_size, sink_name, and application,
\* which has no flag.  Each is given or not given.
ArgsInputs ==
    [relay_url : {None, Some("cli-url")}, bitrate : {None, Some(64000)},
     frame_size : {None, Some(10)}, sink_name : {None, Some("sink")}]

FileInputs ==
    [url : {"", "file-url"}, bitrate : {None, Some(128000)},
     frame_size : {None, Some(40)}, application : {None, Some("voice")},
     sink_name : {None, Some("filesink")}]

NoArgs == [relay_url |-> None, bitrate |-> None, frame_size |-> None, sink_name |-> None]
NoFile == [url |-> "", bitrate |-> None, frame_size |-> None, application |-> None,
           sink_name |-> None]

\* The merge of main (main.rs:132-153).
MergeSettings(a, f) ==
    [relay_url   |-> UnwrapOr(Or(a.relay_url, NonEmpty(f.url)), Defaults.relay_url),
     bitrate     |-> UnwrapOr(Or(a.bitrate, f.bitrate), Defaults.bitrate),
     application |-> UnwrapOr(f.application, Defaults.application),
     frame_size  |-> UnwrapOr(f.frame_size, Defaults.frame_size)]

\* let sink_name = args.sink_name.or(config.pipeline.sink_name) (main.rs:153)
MergeSinkName(a, f) == UnwrapOr(Or(a.sink_name, f.sink_name), NoSink)

(* ----------------------------- Init ------------------------------------ *)
\* The state when main has parsed the command line and extracted the
\* configuration file; nothing of the run exists yet.
InitRun ==
    /\ effective = None
    /\ mpc = "args"
    /\ sink_name = "unset"
    /\ source_device = "unset"
    /\ cpc = "init"
    /\ cres = "none"
    /\ cerr = "none"
    /\ pstate = "Null"
    /\ stream = "idle"
    /\ produced = 0
    /\ notes = 0
    /\ warned = FALSE
    /\ bus = <<>>
    /\ sender_alive = TRUE
    /\ channel = <<>>
    /\ sent = <<>>
    /\ send_failed = FALSE
    /\ dropped_at = 0
    /\ receiver_alive = TRUE
    /\ relay = "down"
    /\ ppc = "start"
    /\ pres = "none"
    /\ perr = "none"
    /\ data = NoData
    /\ frame_count = 0
    /\ drained = <<>>
    /\ groups = <<>>
    /\ first = "none"
    /\ rpc = "select"
    /\ rres = "none"

\* The runs explored in full differ in whether a sink is named.
Init ==
    /\ args \in {NoArgs, [NoArgs EXCEPT !.sink_name = Some("sink")]}
    /\ file = NoFile
    /\ InitRun

\* All command lines and files, for the merge alone.
CfgInit ==
    /\ args \in ArgsInputs
    /\ file \in FileInputs
    /\ InitRun

\* main builds AudioConfig, PipelineConfig and MoqConfig out of args and
\* config (main.rs:132-168); their fields are moved out, which leaves
\* nothing in them.
MainBuildConfig ==
    /\ mpc = "args"
    /\ effective' = Some(MergeSettings(args, file))
    /\ sink_name' = MergeSinkName(args, file)
    /\ args' = NoArgs
    /\ file' = NoFile
    /\ mpc' = "run"
    /\ UNCHANGED <<source_device, capVars, pstate, first, busVars, strVars, chVars, pubVars,
                   grpVars, runVars>>

(* ------------------------- Capture Driver ------------------------------ *)
\* run_gstreamer_pipeline returns: its locals go, and with them the
\* pipeline, the appsink and the callback closure that owns the sender.
CaptureReturn(res, why) ==
    /\ cpc' = "done"
    /\ cres' = res
    /\ cerr' = why
    /\ sender_alive' = FALSE
    /\ dropped_at' = Len(drained)
    /\ first' = IF first = "none" THEN "capture" ELSE first

\* The driver moves on to its next step.
CaptureGoto(pc) ==
    /\ cpc' = pc
    /\ UNCHANGED <<cres, cerr, sender_alive, dropped_at, first>>

\* gst::init()? and Pipeline::default() (lib.rs:127-129)
CaptureInit ==
    /\ mpc = "run"
    /\ cpc = "init"
    /\ \/ CaptureGoto("resolve")
       \/ CaptureReturn("err", "Init")
    /\ UNCHANGED <<cfgVars, pstate, busVars, strVars, chVars, pubVars, grpVars, runVars>>

\* format!("{}.monitor", name) (lib.rs:132, 138)
Monitor(name) == name \o ".monitor"

\* What `pactl get-default-sink` can leave on stdout, trimmed: the name of
\* the default sink, or nothing (no server, no default sink, non-zero exit).
PactlOutputs == {"default", ""}

\* source_device (lib.rs:131-139): "<sink>.monitor", or the trimmed output
\* of `pactl get-default-sink` followed by ".monitor"; only a pactl that
\* cannot be run is an error.
CaptureResolveDevice ==
    /\ cpc = "resolve"
    /\ \/ /\ sink_name # NoSink
          /\ source_device' = Monitor(sink_name)
          /\ CaptureGoto("build")
       \/ /\ sink_name = NoSink
          /\ \E out \in PactlOutputs : source_device' = Monitor(out)
          /\ CaptureGoto("build")
       \/ /\ sink_name = NoSink
          /\ CaptureReturn("err", "Device")
          /\ UNCHANGED source_device
    /\ UNCHANGED <<sink_name, mainVars, pstate, busVars, strVars, chVars, pubVars, grpVars,
                   runVars>>

\* Elements built, added, linked, callbacks installed (lib.rs:143-217).
\* pulsesrc takes whatever source_device holds as its "device" property;
\* no later statement reads config.sink_name or source_device, and the
\* model stops carrying them from here on.
CaptureBuild ==
    /\ cpc = "build"
    /\ \/ CaptureGoto("play")
       \/ CaptureReturn("err", "Build")
    /\ sink_name' = Dead
    /\ source_device' = Dead
    /\ UNCHANGED <<mainVars, pstate, busVars, strVars, chVars, pubVars, grpVars, runVars>>

\* pipeline.set_state(Playing)? and pipeline.bus() (lib.rs:219-221); a
\* gst::Pipeline always has a bus, so the expect on it does not fire.
CapturePlay ==
    /\ cpc = "play"
    /\ \/ /\ CaptureGoto("loop")
          /\ pstate' = "Playing"
       \/ /\ CaptureReturn("err", "SetState")
          /\ UNCHANGED pstate
    /\ UNCHANGED <<cfgVars, busVars, strVars, chVars, pubVars, grpVars, runVars>>

\* One turn of `for msg in bus.iter_timed(NONE)` (lib.rs:222-239).
NextPcWarningFatal(msg) ==
    CASE msg = "Eos"   -> "stop"
      [] msg \in {"Error", "Warning"} -> "errstop"
      [] OTHER         -> "loop"

NextPc(msg) ==
    CASE msg = "Eos"   -> "stop"
      [] msg = "Error" -> "errstop"
      [] OTHER         -> "loop"

CaptureTakeMessage ==
    /\ cpc = "loop"
    /\ bus # <<>>
    /\ CaptureGoto(NextPc(Head(bus)))
    /\ warned' = (warned \/ Head(bus) = "Warning")
    /\ bus' = Tail(bus)
    /\ UNCHANGED <<cfgVars, pstate, notes, strVars, chVars, pubVars, grpVars, runVars>>

\* set_state(Null) waits for the streaming thread to leave the callback (it
\* takes the pad's stream lock, which the thread holds while the callback
\* runs); the pipeline and its bus are released when the driver returns.
StreamQuiet == stream # "sending"

\* MessageView::Error: set_state(Null)?, return Err (lib.rs:229-233)
CaptureErrStopNoNull ==
    /\ cpc = "errstop"
    /\ StreamQuiet
    /\ stream' = "halted"
    /\ bus' = <<>>
    /\ CaptureReturn("err", "BusError")
    /\ UNCHANGED <<cfgVars, pstate, notes, warned, produced, send_failed, chVars, pubVars, grpVars, runVars>>

CaptureErrStop ==
    /\ cpc = "errstop"
    /\ StreamQuiet
    /\ pstate' = "Null"
    /\ stream' = "halted"
    /\ bus' = <<>>
    /\ CaptureReturn("err", "BusError")
    /\ UNCHANGED <<cfgVars, notes, warned, produced, send_failed, chVars, pubVars, grpVars, runVars>>

\* after the loop: set_state(Null)?, Ok(()) (lib.rs:241-242)
CaptureStop ==
    /\ cpc = "stop"
    /\ StreamQuiet
    /\ pstate' = "Null"
    /\ stream' = "halted"
    /\ bus' = <<>>
    /\ CaptureReturn("ok", "none")
    /\ UNCHANGED <<cfgVars, notes, warned, produced, send_failed, chVars, pubVars, grpVars, runVars>>

(* ------------------- streaming thread: new_sample ---------------------- *)
Streaming == pstate = "Playing" /\ stream = "idle"

capAll == <<cfgVars, capVars, pstate, first>>

\* The callback is entered with the next encoded unit and reaches
\* blocking_send (lib.rs:184-209).
NewSample ==
    /\ Streaming
    /\ produced < MaxFrames
    /\ produced' = produced + 1
    /\ stream' = "sending"
    /\ UNCHANGED <<capAll, send_failed, busVars, chVars, pubVars, grpVars, runVars>>

\* pull_sample fails: the callback returns FlowError::Eos (lib.rs:185-186)
CallbackPullFails ==
    /\ Streaming
    /\ produced < MaxFrames
    /\ produced' = produced + 1
    /\ stream' = "floweos"
    /\ UNCHANGED <<capAll, send_failed, busVars, chVars, pubVars, grpVars, runVars>>

\* no buffer in the sample, or the buffer cannot be mapped: the callback
\* returns FlowError::Error (lib.rs:188-191, 199-202)
CallbackBufferFails ==
    /\ Streaming
    /\ produced < MaxFrames
    /\ produced' = produced + 1
    /\ stream' = "flowerr"
    /\ UNCHANGED <<capAll, send_failed, busVars, chVars, pubVars, grpVars, runVars>>

\* blocking_send returns Ok: the frame is in the channel and the callback
\* returns FlowSuccess::Ok (lib.rs:209, 214)
SendCompletes ==
    /\ stream = "sending"
    /\ SendReady
    /\ channel' = Enqueue(channel, Frame(produced))
    /\ sent' = Append(sent, Frame(produced))
    /\ stream' = "idle"
    /\ UNCHANGED <<capAll, produced, send_failed, busVars, pubVars, grpVars, runVars>>

\* blocking_send returns Err: the callback returns FlowError::Error
\* (lib.rs:209-212)
FlowSuccessAfterSendError == "idle"

FlowAfterSendError == "flowerr"

SendFails ==
    /\ stream = "sending"
    /\ SendClosed
    /\ stream' = FlowAfterSendError
    /\ send_failed' = TRUE
    /\ UNCHANGED <<capAll, produced, busVars, chVars, pubVars, grpVars, runVars>>

(* ----------------------- the pipeline's bus ---------------------------- *)
BusOpen == pstate = "Playing" /\ cpc = "loop"

\* A flow return of Error stops the streaming thread and is posted as an
\* error message; a flow return of Eos ends the stream.
PostFlowResult ==
    /\ stream \in {"flowerr", "floweos"}
    /\ pstate = "Playing"
    /\ bus' = Append(bus, IF stream = "flowerr" THEN "Error" ELSE "Eos")
    /\ stream' = "halted"
    /\ UNCHANGED <<capAll, notes, warned, produced, send_failed, chVars, pubVars, grpVars, runVars>>

\* The source reaches end-of-stream between two units.
StreamEos ==
    /\ Streaming
    /\ bus' = Append(bus, "Eos")
    /\ stream' = "halted"
    /\ UNCHANGED <<capAll, notes, warned, produced, send_failed, chVars, pubVars, grpVars, runVars>>

\* An element posts an error mid-stream (device lost, encoder failure).
PostError ==
    /\ BusOpen
    /\ "Error" \notin Range(bus)
    /\ bus' = Append(bus, "Error")
    /\ UNCHANGED <<capAll, notes, warned, strVars, chVars, pubVars, grpVars, runVars>>

\* An element posts a warning or any other non-fatal message.
PostNote ==
    /\ BusOpen
    /\ notes < MaxNotes
    /\ notes' = notes + 1
    /\ \E m \in {"Warning", "Other"} : bus' = Append(bus, m)
    /\ UNCHANGED <<warned, capAll, strVars, chVars, pubVars, grpVars, runVars>>

(* ------------------------- Publish Driver ------------------------------ *)
\* The task ends: its future, which owns frame_receiver and _session, is
\* dropped, and the frames still buffered go with the receiver.
PublishEndKeepsReceiver(res, why) ==
    /\ ppc' = "done"
    /\ pres' = res
    /\ perr' = why
    /\ relay' = "down"
    /\ UNCHANGED <<receiver_alive, channel>>
    /\ first' = IF first = "none" THEN "publish" ELSE first

PublishEnd(res, why) ==
    /\ ppc' = "done"
    /\ pres' = res
    /\ perr' = why
    /\ receiver_alive' = FALSE
    /\ relay' = "down"
    /\ channel' = <<>>
    /\ first' = IF first = "none" THEN "publish" ELSE first

\* The task moves on to its next step.
PublishGoto(pc) ==
    /\ ppc' = pc
    /\ UNCHANGED <<pres, perr, receiver_alive, relay, first>>

pubRest == <<cfgVars, capVars, pstate, busVars, strVars, sent, runVars>>

\* Client::new(..)? and Url::parse(&relay_url)? (lib.rs:251-254)
PubStart ==
    /\ mpc = "run"
    /\ ppc = "start"
    /\ \/ /\ PublishGoto("connecting")
          /\ UNCHANGED channel
       \/ PublishEnd("err", "ClientNew")
       \/ PublishEnd("err", "UrlParse")
    /\ UNCHANGED <<grpVars, pubRest>>

\* client.connect(url).await? fails (lib.rs:255)
PubConnectFails ==
    /\ ppc = "connecting"
    /\ PublishEnd("err", "Connect")
    /\ UNCHANGED <<grpVars, pubRest>>

\* connected; create_broadcast(..).expect(..), create_track, frame_count = 0
\* (lib.rs:255-271)
PubConnected ==
    /\ ppc = "connecting"
    /\ \/ /\ ppc' = "recv"
          /\ relay' = "up"
          /\ frame_count' = 0
          /\ UNCHANGED <<pres, perr, receiver_alive, first, channel>>
       \/ /\ PublishEnd("panic", "Broadcast")
          /\ UNCHANGED frame_count
    /\ UNCHANGED <<data, drained, groups, pubRest>>

\* frame_receiver.recv().await yields a frame; frame_count += 1
\* (lib.rs:272-276)
PubRecv ==
    /\ ppc = "recv"
    /\ channel # <<>>
    /\ data' = RecvFrame(channel).bytes
    /\ drained' = Append(drained, RecvFrame(channel))
    /\ channel' = RecvRest(channel)
    /\ frame_count' = frame_count + 1
    /\ PublishGoto("append")
    /\ UNCHANGED <<groups, pubRest>>

\* recv() yields None: the loop ends, Ok(()) (lib.rs:272, 283-284)
PubRecvNone ==
    /\ ppc = "recv"
    /\ RecvClosed
    /\ PublishEnd("ok", "none")
    /\ UNCHANGED <<grpVars, pubRest>>

\* track_producer.append_group() (lib.rs:278)
AppendGroup(gs) == Append(gs, [frames |-> <<>>, closed |-> FALSE])

PubAppendGroup ==
    /\ ppc = "append"
    /\ groups' = AppendGroup(groups)
    /\ PublishGoto("write")
    /\ UNCHANGED <<channel, data, frame_count, drained, pubRest>>

\* group.write_frame(data) (lib.rs:279)
WriteFrameToFirst(gs, d) ==
    [gs EXCEPT ![1].frames = Append(@, d)]

WriteFrame(gs, d) ==
    [gs EXCEPT ![Len(gs)].frames = Append(@, d)]

PubWriteFrame ==
    /\ ppc = "write"
    /\ groups' = WriteFrame(groups, data)
    /\ PublishGoto("close")
    /\ UNCHANGED <<channel, data, frame_count, drained, pubRest>>

\* group.close(); the frame is dropped at the end of the iteration
\* (lib.rs:280-281)
CloseGroupForgotten(gs) == gs

CloseGroup(gs) ==
    [gs EXCEPT ![Len(gs)].closed = TRUE]

PubCloseGroup ==
    /\ ppc = "close"
    /\ groups' = CloseGroup(groups)
    /\ data' = NoData
    /\ PublishGoto("recv")
    /\ UNCHANGED <<channel, frame_count, drained, pubRest>>

(* --------------------------- Pipe2Moq::run ----------------------------- *)
\* What run makes of a finished JoinHandle: only a JoinError (the task
\* panicked) is an Err; the task's own Result is not looked at
\* (lib.rs:107-110, 113-116, 120).
JoinResult(res) == IF res = "panic" THEN "err" ELSE "ok"

runRest == <<cfgVars, capVars, pstate, first, busVars, strVars, chVars, pubVars, grpVars>>

\* select! takes the pipeline_handle branch (lib.rs:106-111)
RunSelectPipeline ==
    /\ rpc = "select"
    /\ cpc = "done"
    /\ rres' = JoinResult(cres)
    /\ rpc' = "returned"
    /\ UNCHANGED runRest

\* select! takes the moq_handle branch (lib.rs:112-117)
RunSelectMoq ==
    /\ rpc = "select"
    /\ ppc = "done"
    /\ rres' = JoinResult(pres)
    /\ rpc' = "returned"
    /\ UNCHANGED runRest

(* ------------------------------- main ---------------------------------- *)
\* main returns what run returned (main.rs:170-171) and the runtime is shut
\* down: a publisher task that has not finished is dropped at the point
\* where it is suspended; the blocking capture task runs to its end.
Suspended == ppc \in {"start", "connecting", "recv"}

RuntimeShutdown ==
    /\ rpc = "returned"
    /\ Suspended
    /\ PublishEnd("cancelled", "none")
    /\ UNCHANGED <<grpVars, pubRest>>

\* The relay or the network, while the session is held in _session
\* (lib.rs:255): the connection stops taking data, takes data again, or
\* fails.  The publisher has no statement that looks at the session.
RelayRest == <<cfgVars, capVars, pstate, first, busVars, strVars, chVars, grpVars, runVars,
               ppc, pres, perr, receiver_alive>>

RelayStalls ==
    /\ relay = "up"
    /\ relay' = "stalled"
    /\ UNCHANGED RelayRest

RelayResumes ==
    /\ relay = "stalled"
    /\ relay' = "up"
    /\ UNCHANGED RelayRest

SessionFails ==
    /\ relay \in {"up", "stalled"}
    /\ relay' = "failed"
    /\ UNCHANGED RelayRest

Next ==
    \/ MainBuildConfig
    \/ CaptureInit
    \/ CaptureResolveDevice
    \/ CaptureBuild
    \/ CapturePlay
    \/ CaptureTakeMessage
    \/ CaptureErrStop
    \/ CaptureStop
    \/ NewSample
    \/ CallbackPullFails
    \/ CallbackBufferFails
    \/ SendCompletes
    \/ SendFails
    \/ PostFlowResult
    \/ StreamEos
    \/ PostError
    \/ PostNote
    \/ PubStart
    \/ PubConnectFails
    \/ PubConnected
    \/ PubRecv
    \/ PubRecvNone
    \/ PubAppendGroup
    \/ PubWriteFrame
    \/ PubCloseGroup
    \/ RunSelectPipeline
    \/ RunSelectMoq
    \/ RuntimeShutdown
    \/ RelayStalls
    \/ RelayResumes
    \/ SessionFails

Spec == Init /\ [][Next]_vars

\* The capture thread and the publisher task are scheduled, a connect
\* attempt ends, a live source delivers its next unit or ends the stream,
\* and a send or a flow return that can go on does go on.  Error and
\* warning messages of the elements are not owed.
CaptureStep ==
    \/ CaptureInit \/ CaptureResolveDevice \/ CaptureBuild \/ CapturePlay
    \/ CaptureTakeMessage \/ CaptureErrStop \/ CaptureStop

SourceStep ==
    NewSample \/ CallbackPullFails \/ CallbackBufferFails \/ StreamEos

PublishStep ==
    \/ PubStart \/ PubConnectFails \/ PubConnected \/ PubRecv \/ PubRecvNone
    \/ PubAppendGroup \/ PubWriteFrame \/ PubCloseGroup

Fairness ==
    /\ WF_vars(CaptureStep)
    /\ WF_vars(SourceStep)
    /\ WF_vars(SendCompletes)
    /\ WF_vars(SendFails)
    /\ WF_vars(PostFlowResult)
    /\ WF_vars(PublishStep)
    /\ WF_vars(RunSelectPipeline \/ RunSelectMoq)
    /\ WF_vars(RuntimeShutdown)

FairSpec == Init /\ [][Next]_vars /\ Fairness

\* main up to the call of app.run(), over all command lines and files.
CfgNext == MainBuildConfig

CfgSpec == CfgInit /\ [][CfgNext]_vars

(* ------------------------------ claims --------------------------------- *)
\* The outcome of the driver that terminated first.
FirstResult == IF first = "capture" THEN cres ELSE pres

\* C1: once run has returned, its result is an error if the driver that
\* terminated first failed, and Ok only if that driver succeeded.
C1_RunReportsFirstDriver ==
    rpc = "returned" => (rres = "ok" <=> FirstResult = "ok")

\* C2: a relay URL that does not parse, or a connect that fails, ends the
\* Publish Driver before any frame is received or any group opened, and run
\* then ends with an error, never with success.
C2_RelayFailureFailsRun ==
    perr \in {"UrlParse", "Connect"} =>
        /\ drained = <<>>
        /\ groups = <<>>
        /\ rpc = "returned" => rres = "err"

\* C3: if the Capture Driver has ended on a mid-stream error message when
\* run returns, run returns an error, whichever branch of the race it took.
C3_CaptureErrorFailsRun ==
    [][(rpc = "select" /\ rpc' = "returned" /\ cerr = "BusError")
            => rres' = "err"]_vars

\* C4: the payloads written to the track's groups are at every moment a
\* prefix, in production order, of the frames the channel accepted.
C4_WrittenIsPrefixOfSent == IsPrefix(Written, Payloads(sent))

C4_Witness ==
    /\ Len(Written) = Capacity + 1
    /\ Len(sent) > Len(Written)
    /\ Len(channel) > 0

\* C5: when the Capture Driver finished first and with success, run has
\* not returned before the Publish Driver finished, and every frame the
\* channel accepted has then been written to a group.
C5_RunAwaitsPublisher ==
    (rpc = "returned" /\ first = "capture" /\ cres = "ok") =>
        /\ ppc = "done"
        /\ Written = Payloads(sent)

\* C6: between two iterations of the drain loop, and after it, the track
\* holds exactly frame_count groups, all closed, and the k-th group holds
\* exactly one write, the payload of the k-th frame drained.
C6_OneGroupPerFrame ==
    ppc \in {"recv", "done"} =>
        /\ Len(drained) = frame_count
        /\ Len(groups) = frame_count
        /\ \A k \in 1..Len(groups) :
              groups[k] = [frames |-> <<drained[k].bytes>>, closed |-> TRUE]

C6_Witness ==
    /\ ppc = "recv"
    /\ frame_count = Capacity + 1
    /\ Len(groups) = Capacity + 1

\* C7: the channel never holds more than Capacity frames; a pending send
\* completes when a slot is free and the receiver exists, stays pending
\* while the channel is full and the receiver exists, and with a consumer
\* that has taken nothing the send that blocks is the (Capacity+1)-th.
C7_Backpressure ==
    /\ Len(channel) <= Capacity
    /\ (stream = "sending" /\ receiver_alive) =>
          /\ Len(channel) < Capacity => ENABLED SendCompletes
          /\ Len(channel) = Capacity =>
                ~ENABLED SendCompletes /\ ~ENABLED SendFails
          /\ drained = <<>> =>
                ((~ENABLED SendCompletes) <=> produced = Capacity + 1)

C7_Witness ==
    /\ stream = "sending"
    /\ SendBlocked
    /\ drained = <<>>
    /\ produced = Capacity + 1
    /\ Len(channel) = Capacity

\* C8: what recv has yielded, followed by what is buffered, is exactly
\* what was sent; once the sender is dropped recv yields a buffered frame
\* while there is one and the terminal marker only when there is none, and
\* on the terminal marker the Publish Driver ends with success.
C8_DrainThenClosed ==
    /\ receiver_alive => drained \o channel = sent
    /\ pres = "ok" => (ppc = "done" /\ ~sender_alive /\ drained = sent)
    /\ (ppc = "recv" /\ ~sender_alive /\ channel # <<>>) =>
          (ENABLED PubRecv /\ ~ENABLED PubRecvNone)
    /\ (ppc = "recv" /\ ~sender_alive /\ channel = <<>>) =>
          (ENABLED PubRecvNone /\ ~ENABLED PubRecv)

C8_Witness ==
    /\ pres = "ok"
    /\ Len(drained) >= dropped_at + 2

\* C9: after a blocking_send has failed the callback has returned a flow
\* error, the callback is not entered again, no frame is sent, and the
\* Capture Driver does not end with success but, eventually, with an error.
C9_SendFailureIsFatal ==
    /\ [](send_failed =>
            (stream \in {"flowerr", "halted"} /\ cres # "ok"))
    /\ [][send_failed => (produced' = produced /\ sent' = sent)]_vars
    /\ (send_failed ~> (cpc = "done" /\ cres = "err"))

C9_Witness ==
    /\ send_failed
    /\ cpc = "done"
    /\ cres = "err"
    /\ cerr = "BusError"

\* C10: once the sender half is dropped the Publish Driver eventually
\* ends, and once the receiver half is dropped the Capture Driver
\* eventually ends.
C10_CoordinatedShutdown ==
    /\ (~sender_alive ~> ppc = "done")
    /\ (~receiver_alive ~> cpc = "done")

C10_Witness ==
    /\ cpc = "done"
    /\ ppc = "done"
    /\ send_failed
    /\ pres = "err"
    /\ Len(sent) > 0

C13_SessionFailureStopsDrain ==
    [][(relay = "failed" /\ sender_alive) => drained' = drained]_vars

\* C14: a group operation (append_group, write_frame, close) carried out
\* on a session that has failed ends the Publish Driver with an error: the
\* driver does not go on to its next statement.
C14_GroupFailureIsFatal ==
    [][(relay = "failed" /\ ppc \in {"append", "write", "close"} /\ ppc' # ppc)
          => (ppc' = "done" /\ pres' = "err")]_vars

\* C15: when no sink is configured and the default-sink query yields
\* nothing, the Capture Driver does not go on to start the pipeline.
C15_ResolveFailureIsFatal ==
    [][(sink_name = NoSink /\ source_device = Monitor("")) => cpc' # "play"]_vars

\* C16: every setting that main hands to the run is the command-line
\* value if one is given, otherwise the value of the configuration file /
\* environment if one is given, otherwise the default.
C16_CommandLinePrecedence ==
    [][(mpc = "args" /\ mpc' = "run") =>
          /\ effective' # None
          /\ effective'[1].relay_url =
                UnwrapOr(Or(args.relay_url, NonEmpty(file.url)), Defaults.relay_url)
          /\ effective'[1].bitrate =
                UnwrapOr(Or(args.bitrate, file.bitrate), Defaults.bitrate)
          /\ effective'[1].frame_size =
                UnwrapOr(Or(args.frame_size, file.frame_size), Defaults.frame_size)
          /\ effective'[1].application = UnwrapOr(file.application, Defaults.application)
          /\ sink_name' = UnwrapOr(Or(args.sink_name, file.sink_name), NoSink)]_vars

\* C17: at every moment at most one group of the track is open; a group
\* that is closed is never changed again (no write after close); and the
\* Publish Driver receives a frame only when every group is closed.
C17_OneOpenGroup ==
    /\ [](Cardinality({k \in 1..Len(groups) : ~groups[k].closed}) <= 1)
    /\ [][\A k \in 1..Len(groups) :
            groups[k].closed => (k <= Len(groups') /\ groups'[k] = groups[k])]_vars
    /\ [][drained' # drained => \A k \in 1..Len(groups) : groups[k].closed]_vars

C17_Witness ==
    /\ Len(groups) = 2
    /\ groups[1].closed
    /\ ~groups[2].closed
    /\ groups[2].frames = <<data>>
    /\ ppc = "close"

\* C18: while the relay connection is stalled the Publish Driver is held
\* at the group write or close it has reached: it completes neither, so
\* it takes no further frame and the channel fills behind it.
C18_StallIsBackpressure ==
    [][(relay = "stalled" /\ ppc \in {"write", "close"}) => ppc' = ppc]_vars

\* C19: when the driver that terminated first ended by panicking, run
\* has returned an error.
C19_FirstPanicFailsRun ==
    (rpc = "returned" /\ FirstResult = "panic") => rres = "err"

\* C20: once the lifecycle loop has taken an end-of-stream or error
\* message the Capture Driver eventually returns, and a send that is
\* blocked on a full channel is eventually released.
C20_NoShutdownDeadlock ==
    /\ (cpc \in {"stop", "errstop"} ~> cpc = "done")
    /\ ((stream = "sending" /\ SendBlocked) ~> ~(stream = "sending" /\ SendBlocked))

C20_Witness ==
    /\ cpc = "errstop"
    /\ stream = "sending"
    /\ SendBlocked
    /\ Len(channel) = Capacity

====
